---- MODULE Spec2Model ----
(***************************************************************************)
(* A model of loopy/statistics.py: the ToCountMap algebra, the expression  *)
(* counters, the fallback domain counter `count` and the aggregators       *)
(* (get_gmem_access_poly, get_barrier_poly, gather_access_footprints).     *)
(*                                                                         *)
(* Symbolic counts (isl.PwQPolynomial) are modelled at one binding of the  *)
(* kernel parameters, i.e. for domains with explicit constant bounds: a    *)
(* number is a record [t, n, d], t the Python type ("int" or "poly"), n/d  *)
(* the reduced rational value.                                             *)
(***************************************************************************)
EXTENDS Integers, Sequences, FiniteSets, TLC

VARIABLES
    pc,                 \* position of the running entry point
    result,             \* what the entry point returned (or raised)
    warned,             \* diagnostics emitted through loopy.diagnostic.warn
    a, b, c, other,     \* ToCountMap operands and the multiplier of __mul__
    knl,                \* the kernel snapshot handed to a counter / aggregator
    expr,               \* the expression handed to an expression counter
    set,                \* the domain handed to count
    sched_idx, iname_list, barrier_poly,    \* locals of get_barrier_poly
    insn_idx, subs_poly, weighted,          \* locals of get_gmem_access_poly
    write_footprints, read_footprints,      \* locals of gather_access_footprints
    op_poly,                                \* local of get_op_poly
    op_poly_dict                            \* the argument of sum_ops_to_dtypes

mapVars == <<a, b, c, other>>
cntVars == <<knl, expr, set>>
barVars == <<sched_idx, iname_list, barrier_poly>>
gmemVars == <<insn_idx, subs_poly, weighted>>
fpVars == <<write_footprints, read_footprints>>
opVars == <<op_poly, op_poly_dict>>
vars == <<pc, result, warned, mapVars, cntVars, opVars, barVars, gmemVars, fpVars>>

(* Bounds of the model. *)
MaxVal == 1
MaxExtent1 == 9
MaxExtent == 3
MaxPieces == 2
MaxStride == 2

None == [none |-> TRUE]

----------------------------------------------------------------------------
(* Python numbers: int and isl.PwQPolynomial (evaluated).                   *)

RECURSIVE GCD(_, _)
GCD(x, y) == IF y = 0 THEN x ELSE GCD(y, x % y)

Abs(x) == IF x < 0 THEN -x ELSE x

Norm(t, n, d) ==
    LET g == GCD(Abs(n), d)
    IN  [t |-> t, n |-> n \div g, d |-> d \div g]

PyInt(k) == [t |-> "int", n |-> k, d |-> 1]
PwQPolynomial(k) == [t |-> "poly", n |-> k, d |-> 1]

JoinType(x, y) == IF x.t = "poly" \/ y.t = "poly" THEN "poly" ELSE "int"

PyAdd(x, y) == Norm(JoinType(x, y), x.n * y.d + y.n * x.d, x.d * y.d)
PyMul(x, y) == Norm(JoinType(x, y), x.n * y.n, x.d * y.d)

(* PwQPolynomial.scale_down_val: exact rational division by a positive val *)
scale_down_val(x, v) == Norm(x.t, x.n, x.d * v)

----------------------------------------------------------------------------
(* ToCountMap: a dict from keys to numbers, modelled as a function.  The    *)
(* keys' __eq__/__hash__ agree with structural equality of the records      *)
(* used here (no wildcard key is ever constructed by the counters).         *)

Ok(v) == [err |-> "", val |-> v]
Raise(e) == [err |-> e, val |-> <<>>]

EmptyMap == <<>>

ToCountMap(k, v) == [x \in {k} |-> v]

get(dict, k, default) == IF k \in DOMAIN dict THEN dict[k] ELSE default

ToCountMap_add_drop(self, o) ==
    [k \in DOMAIN self \cup DOMAIN o |->
        IF k \in DOMAIN o THEN o[k] ELSE self[k]]

ToCountMap_add(self, o) ==
    [k \in DOMAIN self \cup DOMAIN o |->
        IF k \in DOMAIN o THEN PyAdd(get(self, k, PyInt(0)), o[k]) ELSE self[k]]

(* other is the left operand: a number (sum() starts from the int 0) *)
ToCountMap_radd(self, o) ==
    IF o # PyInt(0) THEN Raise("ValueError") ELSE Ok(self)

ToCountMap_mul_scalar(self, o) ==
    IF o.t \in {"poly", "int"}
    THEN Ok([index \in DOMAIN self |-> PyMul(self[index], o)])
    ELSE Raise("ValueError")

ToCountMap_mul(self, o) ==
    IF o.t = "poly"
    THEN Ok([index \in DOMAIN self |-> PyMul(self[index], o)])
    ELSE Raise("ValueError")

ToCountMap_getitem(self, index) == get(self, index, PwQPolynomial(0))

(* sum(values): Python's sum starts from int 0 and uses __radd__ first *)
RECURSIVE SumMaps(_)
SumMaps(ms) ==
    IF Len(ms) = 0 THEN EmptyMap
    ELSE ToCountMap_add(SumMaps(SubSeq(ms, 1, Len(ms) - 1)), ms[Len(ms)])

TypedOp(dtype, name) == [dtype |-> dtype, name |-> name]

StridedGmemAccess(dtype, stride, direction, variable) ==
    [dtype |-> dtype, stride |-> stride, direction |-> direction,
     variable |-> variable]

----------------------------------------------------------------------------
(* Specification of the ToCountMap algebra: operands drawn from bounded     *)
(* sets, one action per operator applied.                                   *)

MapKeys == {TypedOp("f32", "add"), TypedOp("f32", "mul")}
MapVals == {PyInt(v) : v \in (-MaxVal)..MaxVal} \cup {PwQPolynomial(MaxVal + 1)}
Maps == UNION {[D -> MapVals] : D \in SUBSET MapKeys}
Multipliers ==
    {[t |-> "poly", n |-> v, d |-> 1] : v \in (-MaxVal)..(MaxVal + 1)}
    \cup {[t |-> "int", n |-> v, d |-> 1] : v \in (-MaxVal)..(MaxVal + 1)}
    \cup {[t |-> "str", n |-> 0, d |-> 1]}

Idle ==
    /\ knl = None /\ expr = None /\ set = None
    /\ sched_idx = 0 /\ iname_list = <<>> /\ barrier_poly = None
    /\ insn_idx = 0 /\ subs_poly = None /\ op_poly = None /\ op_poly_dict = None /\ weighted = {}
    /\ write_footprints = <<>> /\ read_footprints = <<>>
    /\ warned = <<>>

InitMap ==
    /\ pc = "start"
    /\ result = None
    /\ a \in Maps /\ b \in Maps /\ c \in Maps
    /\ other = None
    /\ Idle

Add ==
    /\ pc = "start"
    /\ pc' = "added"
    /\ result' = [ab |-> ToCountMap_add(a, b),
                  ba |-> ToCountMap_add(b, a),
                  ab_c |-> ToCountMap_add(ToCountMap_add(a, b), c),
                  a_bc |-> ToCountMap_add(a, ToCountMap_add(b, c)),
                  a0 |-> ToCountMap_add(a, EmptyMap),
                  r0 |-> ToCountMap_radd(a, PyInt(0))]
    /\ UNCHANGED <<warned, mapVars, cntVars, opVars, barVars, gmemVars, fpVars>>

Mul ==
    /\ pc = "start"
    /\ pc' = "scaled"
    /\ \E o \in Multipliers :
        /\ other' = o
        /\ result' = ToCountMap_mul(a, o)
    /\ UNCHANGED <<warned, a, b, c, cntVars, opVars, barVars, gmemVars, fpVars>>

NextMap == Add \/ Mul

SpecMap == InitMap /\ [][NextMap]_vars

SameValues(m1, m2) ==
    \A k \in MapKeys : ToCountMap_getitem(m1, k) = ToCountMap_getitem(m2, k)

(* C6: ToCountMap addition is commutative and associative (same value at    *)
(* every key), and adding the empty map, or adding a map to 0, leaves the   *)
(* map's entries unchanged.                                                 *)
C6_AddCommAssocIdentity ==
    pc = "added" =>
        /\ SameValues(result.ab, result.ba)
        /\ result.ab = result.ba
        /\ SameValues(result.ab_c, result.a_bc)
        /\ result.ab_c = result.a_bc
        /\ result.a0 = a
        /\ result.r0 = Ok(a)

C6_Witness ==
    /\ pc = "added"
    /\ DOMAIN a \cap DOMAIN b # {}
    /\ DOMAIN b \cap DOMAIN c # {}
    /\ DOMAIN a # DOMAIN b
    /\ \E k \in DOMAIN a \cap DOMAIN b : a[k] # b[k]

(* C7 as amended: scaling by a PwQPolynomial multiplies every value and     *)
(* keeps the keys; scaling by anything else, a plain int included, raises   *)
(* ValueError.                                                              *)
C7_MulOnlyByPoly ==
    pc = "scaled" =>
        IF other.t = "poly"
        THEN /\ result.err = ""
             /\ DOMAIN result.val = DOMAIN a
             /\ \A k \in DOMAIN a : result.val[k] = PyMul(a[k], other)
        ELSE result.err = "ValueError"

C7_Witness ==
    /\ pc = "scaled"
    /\ other.t = "poly" /\ other.n < 0
    /\ Cardinality(DOMAIN a) = 2
    /\ result.err = ""

(* C7 as stated: a plain numeric scalar scales like a SymbolicCount, and    *)
(* only a multiplier that is neither raises.                                *)
C7_Original ==
    pc = "scaled" =>
        IF other.t \in {"poly", "int"}
        THEN /\ result.err = ""
             /\ DOMAIN result.val = DOMAIN a
             /\ \A k \in DOMAIN a : result.val[k] = PyMul(a[k], other)
        ELSE result.err # ""

----------------------------------------------------------------------------
(* Domains.  A basic set (convex piece) is [n, pts, strides]: its number of *)
(* set dimensions, its integer points (tuples), and per dimension the       *)
(* stride loopy.isl_helpers.get_simple_strides reports (0: no entry).       *)

BasicSet(n, pts, strides) == [n |-> n, pts |-> pts, strides |-> strides]

SetMax(S) == CHOOSE m \in S : \A x \in S : x <= m
SetMin(S) == CHOOSE m \in S : \A x \in S : m <= x

dim_max(bset, i) == SetMax({p[i] : p \in bset.pts})
dim_min(bset, i) == SetMin({p[i] : p \in bset.pts})

(* the stride of a congruence constraint on dimension i, None otherwise *)
get_simple_strides(bset, i) == bset.strides[i]

stride_of(bset, i) ==
    IF get_simple_strides(bset, i) = 0 THEN 1 ELSE get_simple_strides(bset, i)

(* length = from_pw_aff(dmax - dmin + stride).scale_down_val(stride) *)
length(bset, i) ==
    scale_down_val(
        PwQPolynomial(dim_max(bset, i) - dim_min(bset, i) + stride_of(bset, i)),
        stride_of(bset, i))

(* bset_count after the dimensions 1..i: None before the first one *)
RECURSIVE bset_count(_, _)
bset_count(bset, i) ==
    IF i = 0 THEN None
    ELSE IF i = 1 THEN length(bset, 1)
    ELSE PyMul(bset_count(bset, i - 1), length(bset, i))

Coords == 0..(MaxExtent1 + 1)
universe(n) == [1..n -> Coords]

bset_rebuilt(bset) ==
    {p \in universe(bset.n) :
        \A i \in 1..bset.n :
            /\ p[i] <= dim_max(bset, i)
            /\ p[i] >= dim_min(bset, i)
            /\ (p[i] - dim_min(bset, i)) % stride_of(bset, i) = 0}

estimate_warning_swapped(bset) ==
    LET is_subset == bset.pts \subseteq bset_rebuilt(bset)
        is_superset == bset_rebuilt(bset) \subseteq bset.pts
    IN  IF is_subset /\ is_superset THEN <<>>
        ELSE IF is_superset THEN <<"count_overestimate">>
        ELSE IF is_subset THEN <<"count_underestimate">>
        ELSE <<"count_misestimate">>

estimate_warning(bset) ==
    LET is_subset == bset.pts \subseteq bset_rebuilt(bset)
        is_superset == bset_rebuilt(bset) \subseteq bset.pts
    IN  IF is_subset /\ is_superset THEN <<>>
        ELSE IF is_subset THEN <<"count_overestimate">>
        ELSE IF is_superset THEN <<"count_underestimate">>
        ELSE <<"count_misestimate">>

(* the loop over set.get_basic_sets(): [count, warned] after k pieces *)
RECURSIVE count_loop(_, _)
count_loop(bsets, k) ==
    IF k = 0 THEN [count |-> PyInt(0), warned |-> <<>>]
    ELSE LET prev == count_loop(bsets, k - 1)
             bset == bsets[k]
             bc == bset_count(bset, bset.n)
         IN  [count |-> IF bc # None THEN PyAdd(prev.count, bc) ELSE prev.count,
              warned |-> prev.warned \o estimate_warning(bset)]

(* a set is [card, bsets]: whether set.card exists (barvinok wrappers), and *)
(* the pieces make_disjoint/get_basic_sets yield                            *)
count(kernel, s) ==
    IF s.card
    THEN [count |-> PwQPolynomial(Cardinality(UNION {s.bsets[k].pts : k \in DOMAIN s.bsets})),
          warned |-> <<>>]
    ELSE count_loop(s.bsets, Len(s.bsets))

----------------------------------------------------------------------------
(* Specification of count: the domain drawn from a family of disjoint       *)
(* convex pieces with explicit bounds.                                      *)

Strided(lo, hi, s) == {x \in lo..hi : (x - lo) % s = 0}

Pieces0 == {BasicSet(0, {<<>>}, <<>>)}

Pieces1 ==
    {BasicSet(1, {<<x>> : x \in Strided(lo, hi, s)},
              <<IF s > 1 /\ hi - lo >= s THEN s ELSE 0>>) :
        lo \in {0, 1, MaxExtent + 2}, hi \in (MaxExtent + 3)..MaxExtent1,
        s \in 1..MaxStride}

(* boxes and triangles (x1 <= x0 - lo) of width w + 1 and height w *)
Pieces2 ==
    {BasicSet(2,
              {p \in Strided(lo, lo + w, s) \X (0..(w - 1)) :
                    shape = "tri" => p[2] <= p[1] - lo},
              <<IF s > 1 /\ w >= s THEN s ELSE 0, 0>>) :
        lo \in {0, 1, MaxExtent + 1}, w \in 1..MaxExtent, s \in 1..MaxStride,
        shape \in {"box", "tri"}}

PairwiseDisjoint(bsets) ==
    \A i, j \in DOMAIN bsets :
        i < j => /\ bsets[i].pts \cap bsets[j].pts = {}
                 /\ bsets[i].n = bsets[j].n

SeqsUpTo(S, n) == UNION {[1..k -> S] : k \in 0..n}

DisjointSets(P) == {bs \in SeqsUpTo(P, MaxPieces) : PairwiseDisjoint(bs)}

CountInputs ==
    {[card |-> cd, bsets |-> bs] :
        cd \in BOOLEAN,
        bs \in DisjointSets(Pieces0) \cup DisjointSets(Pieces1)
                \cup DisjointSets(Pieces2)}

InitCount ==
    /\ pc = "start"
    /\ result = None
    /\ set \in CountInputs
    /\ knl = None /\ expr = None
    /\ a = None /\ b = None /\ c = None /\ other = None
    /\ sched_idx = 0 /\ iname_list = <<>> /\ barrier_poly = None
    /\ insn_idx = 0 /\ subs_poly = None /\ op_poly = None /\ op_poly_dict = None /\ weighted = {}
    /\ write_footprints = <<>> /\ read_footprints = <<>>
    /\ warned = <<>>

CallCount ==
    /\ pc = "start"
    /\ pc' = "done"
    /\ result' = count(knl, set).count
    /\ warned' = count(knl, set).warned
    /\ UNCHANGED <<mapVars, cntVars, opVars, barVars, gmemVars, fpVars>>

NextCount == CallCount

SpecCount == InitCount /\ [][NextCount]_vars

(* the number of points of the strided box of one piece, as the spec states *)
(* it: the product over all dimensions of floor((max - min)/stride) + 1     *)
RECURSIVE BoxPoints(_, _)
BoxPoints(bset, i) ==
    IF i = 0 THEN 1
    ELSE BoxPoints(bset, i - 1)
         * (((dim_max(bset, i) - dim_min(bset, i)) \div stride_of(bset, i)) + 1)

RECURSIVE SumBoxPoints(_, _)
SumBoxPoints(bsets, k) ==
    IF k = 0 THEN 0
    ELSE SumBoxPoints(bsets, k - 1) + BoxPoints(bsets[k], bsets[k].n)

Fallback == pc = "done" /\ ~set.card

(* C8 as stated: without the exact backend count returns the sum over the   *)
(* pieces of the product over all dimensions of floor((max-min)/stride)+1.  *)
C8_FallbackIsSumOfBoxProducts ==
    Fallback =>
        /\ result.n = SumBoxPoints(set.bsets, Len(set.bsets))
        /\ result.d = 1

(* the same statement restricted to pieces with at least one set dimension  *)
FallbackSumOnSetDims ==
    (Fallback /\ \A k \in DOMAIN set.bsets : set.bsets[k].n > 0) =>
        /\ result.n = SumBoxPoints(set.bsets, Len(set.bsets))
        /\ result.d = 1

(* the even indices in [0, 9] count 5, with no diagnostic *)
C8_Witness ==
    /\ Fallback
    /\ set.bsets = <<BasicSet(1, {<<0>>, <<2>>, <<4>>, <<6>>, <<8>>}, <<2>>)>>
    /\ result = PwQPolynomial(5)
    /\ warned = <<>>

(* the classification of one piece as the spec states it *)
Diagnostic(bset) ==
    LET box == bset_rebuilt(bset)
    IN  IF box = bset.pts THEN <<>>
        ELSE IF bset.pts \subseteq box /\ box # bset.pts
             THEN <<"count_overestimate">>
        ELSE IF box \subseteq bset.pts /\ box # bset.pts
             THEN <<"count_underestimate">>
        ELSE <<"count_misestimate">>

RECURSIVE Diagnostics(_, _)
Diagnostics(bsets, k) ==
    IF k = 0 THEN <<>>
    ELSE Diagnostics(bsets, k - 1) \o Diagnostic(bsets[k])

RECURSIVE SumOnSetDims(_, _)
SumOnSetDims(bsets, k) ==
    IF k = 0 THEN 0
    ELSE SumOnSetDims(bsets, k - 1)
         + (IF bsets[k].n > 0 THEN BoxPoints(bsets[k], bsets[k].n) ELSE 0)

(* C9: in the fallback path each piece gets no diagnostic when its strided  *)
(* box equals it and otherwise exactly one, classified overestimate,        *)
(* underestimate or misestimate by the containment between box and piece;   *)
(* count still returns, with the value the pieces' boxes give.              *)
C9_OneDiagnosticPerInexactPiece ==
    Fallback =>
        /\ warned = Diagnostics(set.bsets, Len(set.bsets))
        /\ result.n = SumOnSetDims(set.bsets, Len(set.bsets))
        /\ result.d = 1

C9_Witness ==
    /\ Fallback
    /\ Len(set.bsets) = 2
    /\ warned = <<"count_overestimate">>
    /\ set.bsets[2].pts = (0..3) \X (0..2)
    /\ result.n > 12

----------------------------------------------------------------------------
(* Expressions (pymbolic): [kind, name, val, ch].  kind is "const", "var",  *)
(* "sum", "prod", "sub" (subscript name[ch]), "call" (name(ch)) or one of   *)
(* the kinds no counter implements.                                         *)

Const(v) == [kind |-> "const", name |-> "", val |-> v, ch |-> <<>>]
Var(n) == [kind |-> "var", name |-> n, val |-> 0, ch |-> <<>>]
Sum(ch) == [kind |-> "sum", name |-> "", val |-> 0, ch |-> ch]
Product(ch) == [kind |-> "prod", name |-> "", val |-> 0, ch |-> ch]
Subscript(n, index) == [kind |-> "sub", name |-> n, val |-> 0, ch |-> index]
Call(f, parameters) == [kind |-> "call", name |-> f, val |-> 0, ch |-> parameters]
Opaque(kind, ch) == [kind |-> kind, name |-> "", val |-> 0, ch |-> ch]

UnsupportedKinds == {"common_subexpression", "substitution", "derivative", "slice"}

(* index tags: LocalIndexTag(axis), GroupIndexTag(axis), or no tag *)
LocalIndexTag(axis) == [kind |-> "l", axis |-> axis]
GroupIndexTag(axis) == [kind |-> "g", axis |-> axis]
NoTag == [kind |-> "none", axis |-> 0]

(* sys.maxsize, the maximal-stride sentinel *)
maxsize == 2147483647

(* stride classes: an int s is <<s>>, Python's None is <<>> *)
IntStride(s) == <<s>>
NoStride == <<>>

(* loopy.expression.TypeInferenceMapper: the dtype of an expression *)
Rank(dtype) == CASE dtype = "i32" -> 0 [] dtype = "f32" -> 1 [] OTHER -> 2
Promote(d1, d2) == IF Rank(d1) >= Rank(d2) THEN d1 ELSE d2

RECURSIVE type_inf(_, _)
RECURSIVE PromoteAll(_, _, _)
PromoteAll(k, ch, n) ==
    IF n = 0 THEN "i32"
    ELSE Promote(PromoteAll(k, ch, n - 1), type_inf(k, ch[n]))

type_inf(k, e) ==
    CASE e.kind = "const" -> "i32"
      [] e.kind = "var" ->
            IF e.name \in DOMAIN k.arg_dict THEN k.arg_dict[e.name].dtype
            ELSE IF e.name \in DOMAIN k.temporary_variables
                 THEN k.temporary_variables[e.name].dtype
            ELSE "i32"
      [] e.kind = "sub" ->
            IF e.name \in DOMAIN k.arg_dict THEN k.arg_dict[e.name].dtype
            ELSE k.temporary_variables[e.name].dtype
      [] OTHER -> PromoteAll(k, e.ch, Len(e.ch))

Plus(o1, o2) ==
    IF o1.err # "" THEN o1
    ELSE IF o2.err # "" THEN o2
    ELSE Ok(ToCountMap_add(o1.val, o2.val))

(* pymbolic.primitives.is_zero(child + 1): only the literal -1 *)
is_minus_one(child) == child.kind = "const" /\ child.val = -1

----------------------------------------------------------------------------
(* ExpressionOpCounter *)

sum_units_all(e) == Len(e.ch)

sum_units(e) == Len(e.ch) - 1

RECURSIVE op_rec(_, _)
RECURSIVE op_sum(_, _, _)
RECURSIVE op_product_terms(_, _, _, _)

(* sum(self.rec(child) for child in children[1..n]) *)
op_sum(k, ch, n) ==
    IF n = 0 THEN Ok(EmptyMap)
    ELSE Plus(op_sum(k, ch, n - 1), op_rec(k, ch[n]))

(* sum(ToCountMap({mul: 1}) + self.rec(child) for child ... if not -1) *)
op_product_terms(k, e, ch, n) ==
    IF n = 0 THEN Ok(EmptyMap)
    ELSE IF is_minus_one(ch[n]) THEN op_product_terms(k, e, ch, n - 1)
    ELSE Plus(op_product_terms(k, e, ch, n - 1),
              Plus(Ok(ToCountMap(TypedOp(type_inf(k, e), "mul"), PyInt(1))),
                   op_rec(k, ch[n])))

op_map_call(k, e) ==
    Plus(Ok(ToCountMap(TypedOp(type_inf(k, e), "func:" \o e.name), PyInt(1))),
         op_sum(k, e.ch, Len(e.ch)))

op_map_sum(k, e) ==
    IF Len(e.ch) = 0 THEN Raise("AssertionError")
    ELSE Plus(Ok(ToCountMap(TypedOp(type_inf(k, e), "add"), PyInt(sum_units(e)))),
              op_sum(k, e.ch, Len(e.ch)))

op_map_product(k, e) ==
    IF Len(e.ch) = 0 THEN Raise("AssertionError")
    ELSE Plus(op_product_terms(k, e, e.ch, Len(e.ch)),
              Ok(ToCountMap(TypedOp(type_inf(k, e), "mul"), PyInt(-1))))

op_rec(k, e) ==
    CASE e.kind \in {"const", "var"} -> Ok(EmptyMap)
      [] e.kind = "call" -> op_map_call(k, e)
      [] e.kind = "sub" -> op_sum(k, e.ch, Len(e.ch))
      [] e.kind = "sum" -> op_map_sum(k, e)
      [] e.kind = "prod" -> op_map_product(k, e)
      [] OTHER -> Raise("NotImplementedError: " \o e.kind)

ExpressionOpCounter(k, e) == op_rec(k, e)

----------------------------------------------------------------------------
(* GlobalSubscriptCounter *)

FixedStrideArrayDimTag(stride) == [kind |-> "fixed", stride |-> stride]
OtherArrayDimTag == [kind |-> "other", stride |-> 0]

(* loopy.symbolic.get_dependencies: the variables an expression names *)
RECURSIVE get_dependencies(_)
get_dependencies(e) ==
    CASE e.kind = "const" -> {}
      [] e.kind = "var" -> {e.name}
      [] e.kind = "sub" ->
            {e.name} \cup UNION {get_dependencies(e.ch[n]) : n \in DOMAIN e.ch}
      [] OTHER -> UNION {get_dependencies(e.ch[n]) : n \in DOMAIN e.ch}

all_inames(k) == DOMAIN k.iname_to_tag

(* loopy.symbolic.CoefficientCollector: variable -> coefficient of an       *)
(* affine expression, the constant term under "1"; raises on a non-linear   *)
(* expression and on indirect addressing                                    *)
RECURSIVE CoefficientCollector(_)
RECURSIVE coeff_sum(_, _)
RECURSIVE const_product(_, _, _)

MergeCoeffs(d1, d2) ==
    [v \in DOMAIN d1 \cup DOMAIN d2 |-> get(d1, v, 0) + get(d2, v, 0)]

coeff_sum(ch, n) ==
    IF n = 0 THEN Ok(<<>>)
    ELSE LET prev == coeff_sum(ch, n - 1)
             cur == CoefficientCollector(ch[n])
         IN  IF prev.err # "" THEN prev
             ELSE IF cur.err # "" THEN cur
             ELSE Ok(MergeCoeffs(prev.val, cur.val))

HasVars(e) == get_dependencies(e) # {}

(* the product of the constant terms of the children other than skip *)
const_product(ch, n, skip) ==
    IF n = 0 THEN 1
    ELSE const_product(ch, n - 1, skip)
         * (IF n = skip THEN 1 ELSE CoefficientCollector(ch[n]).val["1"])

CoefficientCollector(e) ==
    CASE e.kind = "const" -> Ok([v \in {"1"} |-> e.val])
      [] e.kind = "var" -> Ok([v \in {e.name} |-> 1])
      [] e.kind = "sum" -> coeff_sum(e.ch, Len(e.ch))
      [] e.kind = "prod" ->
            LET withVars == {n \in DOMAIN e.ch : HasVars(e.ch[n])}
            IN  IF Cardinality(withVars) > 1 THEN Raise("RuntimeError: nonlinear")
                ELSE IF \E n \in DOMAIN e.ch : CoefficientCollector(e.ch[n]).err # ""
                     THEN Raise("RuntimeError")
                ELSE IF withVars = {}
                     THEN Ok([v \in {"1"} |-> const_product(e.ch, Len(e.ch), 0)])
                ELSE LET i == CHOOSE n \in withVars : TRUE
                         ci == CoefficientCollector(e.ch[i]).val
                     IN  Ok([v \in DOMAIN ci |->
                                ci[v] * const_product(e.ch, Len(e.ch), i)])
      [] OTHER -> Raise("RuntimeError: " \o e.kind)

is_parallel_tag(tag) == tag.kind \in {"l", "g"}

(* isinstance(tag, LocalIndexTag) *)
is_local_tag(tag) == tag.kind = "l"

total_stride_dim_only(stride, coeff_min_lid) == stride

(* total_stride = stride*coeff_min_lid*extra_stride, extra_stride = 1 *)
total_stride(stride, coeff_min_lid) == stride * coeff_min_lid * 1

(* the loop over zip(index, array.dim_tags): total_stride after n axes *)
RECURSIVE stride_loop(_, _, _, _)
stride_loop(index, dim_tags, min_lid, n) ==
    IF n = 0 THEN Ok(NoStride)
    ELSE LET prev == stride_loop(index, dim_tags, min_lid, n - 1)
             coeffs == CoefficientCollector(index[n])
         IN  IF prev.err # "" THEN prev
             ELSE IF coeffs.err # "" THEN coeffs
             ELSE IF min_lid \notin DOMAIN coeffs.val THEN prev
             ELSE IF dim_tags[n].kind # "fixed" THEN prev
             ELSE Ok(IntStride(total_stride(dim_tags[n].stride,
                                            coeffs.val[min_lid])))

Min2(x, y) == IF x <= y THEN x ELSE y

RECURSIVE gmem_rec(_, _)
RECURSIVE gmem_sum(_, _, _)

gmem_sum(k, ch, n) ==
    IF n = 0 THEN Ok(EmptyMap)
    ELSE Plus(gmem_sum(k, ch, n - 1), gmem_rec(k, ch[n]))

gmem_map_subscript(k, e) ==
    LET name == e.name
        index == e.ch
        rec_index == gmem_sum(k, index, Len(index))
    IN  IF name \notin DOMAIN k.arg_dict THEN rec_index
        ELSE IF ~k.arg_dict[name].is_global THEN rec_index
        ELSE
        LET array == k.arg_dict[name]
            my_inames == get_dependencies(Opaque("tuple", index)) \cap all_inames(k)
            lids == {iname \in my_inames : is_local_tag(k.iname_to_tag[iname])}
            local_id_found == lids # {}
            min_tag_axis == IF lids = {} THEN maxsize
                            ELSE SetMin({k.iname_to_tag[iname].axis : iname \in lids})
        IN  IF ~local_id_found
            THEN Plus(Ok(ToCountMap(StridedGmemAccess(type_inf(k, e), IntStride(0),
                                                      "None", name), PyInt(1))),
                      rec_index)
            ELSE
            LET min_lid == CHOOSE iname \in lids :
                                k.iname_to_tag[iname].axis = min_tag_axis
                ts == stride_loop(index, array.dim_tags, min_lid,
                                  Min2(Len(index), Len(array.dim_tags)))
            IN  IF ts.err # "" THEN ts
                ELSE IF min_tag_axis # 0
                THEN Plus(Ok(ToCountMap(StridedGmemAccess(type_inf(k, e),
                                IntStride(maxsize), "None", name), PyInt(1))),
                          rec_index)
                ELSE Plus(Ok(ToCountMap(StridedGmemAccess(type_inf(k, e),
                                ts.val, "None", name), PyInt(1))),
                          rec_index)

gmem_rec(k, e) ==
    CASE e.kind \in {"const", "var"} -> Ok(EmptyMap)
      [] e.kind = "call" -> gmem_sum(k, e.ch, Len(e.ch))
      [] e.kind = "sub" -> gmem_map_subscript(k, e)
      [] e.kind \in {"sum", "prod"} -> gmem_sum(k, e.ch, Len(e.ch))
      [] OTHER -> Raise("NotImplementedError: " \o e.kind)

GlobalSubscriptCounter(k, e) == gmem_rec(k, e)

----------------------------------------------------------------------------
(* LocalSubscriptCounter *)

LmemAccess(dtype, direction) == [dtype |-> dtype, direction |-> direction]

RECURSIVE lmem_rec(_, _)
RECURSIVE lmem_sum(_, _, _)

lmem_sum(k, ch, n) ==
    IF n = 0 THEN Ok(EmptyMap)
    ELSE Plus(lmem_sum(k, ch, n - 1), lmem_rec(k, ch[n]))

lmem_map_subscript(k, e) ==
    LET name == e.name
        rec_index == lmem_sum(k, e.ch, Len(e.ch))
    IN  IF name \in DOMAIN k.temporary_variables
           /\ k.temporary_variables[name].is_local
        THEN Plus(Ok(ToCountMap(LmemAccess(type_inf(k, e), "None"), PyInt(1))),
                  rec_index)
        ELSE rec_index

lmem_rec_structural(k, e) ==
    IF e.kind \in {"const", "var"} THEN Ok(EmptyMap)
    ELSE IF e.kind = "sub" THEN lmem_map_subscript(k, e)
    ELSE lmem_sum(k, e.ch, Len(e.ch))

lmem_rec(k, e) ==
    CASE e.kind \in {"const", "var"} -> Ok(EmptyMap)
      [] e.kind = "call" -> lmem_sum(k, e.ch, Len(e.ch))
      [] e.kind = "sub" -> lmem_map_subscript(k, e)
      [] e.kind \in {"sum", "prod"} -> lmem_sum(k, e.ch, Len(e.ch))
      [] OTHER -> Raise("NotImplementedError: " \o e.kind)

LocalSubscriptCounter(k, e) == lmem_rec(k, e)

----------------------------------------------------------------------------
(* Specification of the expression counters: a kernel (index tags, array    *)
(* declarations) and an expression drawn from bounded families, one action  *)
(* per counter applied.                                                     *)

MaxCoeff == 2
MaxOperands == 3

TagMaps ==
    {tg \in [{"i", "j"} -> {NoTag, LocalIndexTag(0), LocalIndexTag(1), GroupIndexTag(0)}] :
        /\ tg["j"] # GroupIndexTag(0)
        /\ (tg["i"].kind = "l" /\ tg["j"].kind = "l") => tg["i"] # tg["j"]}

GlobalArg(dtype, dim_tags) ==
    [is_global |-> TRUE, dtype |-> dtype, dim_tags |-> dim_tags]
ValueArg(dtype) == [is_global |-> FALSE, dtype |-> dtype, dim_tags |-> <<>>]

ArgDict(st) ==
    [n \in {"a", "b", "d", "v"} |->
        CASE n = "a" -> GlobalArg("f32", <<FixedStrideArrayDimTag(st)>>)
          [] n = "b" -> GlobalArg("f64", <<FixedStrideArrayDimTag(st + 1),
                                           FixedStrideArrayDimTag(1)>>)
          [] n = "d" -> GlobalArg("f32", <<OtherArrayDimTag>>)
          [] OTHER -> ValueArg("i32")]

Temporaries ==
    [n \in {"t", "x"} |-> [dtype |-> "f32", is_local |-> n = "t"]]

CounterKernels ==
    {[iname_to_tag |-> tg, arg_dict |-> ArgDict(st),
      temporary_variables |-> Temporaries] :
        tg \in TagMaps, st \in 1..MaxStride}

Atoms == {Const(1), Const(-1), Var("i"), Var("j"), Var("x")}

(* lane_index * cf + sequential_offset *)
Lin(cf) == Sum(<<Product(<<Var("i"), Const(cf)>>), Var("j")>>)

IdxExprs ==
    {Var("i"), Var("j"), Const(0)}
    \cup {Lin(cf) : cf \in 1..MaxCoeff}
    \cup {Product(<<Var("j"), Const(cf)>>) : cf \in 1..MaxCoeff}
    \cup {Product(<<Var("i"), Var("j")>>),
          Subscript("a", <<Var("j")>>),
          Subscript("a", <<Var("i")>>),
          Opaque("slice", <<Var("j")>>)}

SubExprs ==
    {Subscript(n, <<ix>>) : n \in {"a", "d", "t", "v"}, ix \in IdxExprs}
    \cup {Subscript("b", <<ix, jx>>) : ix \in {Var("i"), Var("j")},
                                       jx \in {Var("i"), Var("j"), Const(0)}}

SumExprs == {Sum(ch) : ch \in UNION {[1..n -> Atoms] : n \in 1..MaxOperands}}

OtherExprs ==
    {Product(<<Const(-1), Var("x")>>), Product(<<Var("x"), Var("x")>>),
     Product(<<Const(-1)>>), Call("sin", <<Var("x")>>),
     Product(<<Const(-1), Const(-1)>>),
     Product(<<Var("x"), Product(<<Const(-1), Var("x")>>), Const(2)>>),
     Product(<<Const(-1), Opaque("derivative", <<Var("x")>>)>>),
     Call("sin", <<Opaque("substitution", <<Var("x")>>)>>),
     Sum(<<Opaque("slice", <<Var("x")>>), Opaque("derivative", <<Var("x")>>)>>),
     Sum(<<Subscript("t", <<Var("i")>>), Subscript("t", <<Var("j")>>)>>),
     Sum(<<Subscript("a", <<Var("i")>>), Subscript("a", <<Var("j")>>)>>),
     Sum(<<Var("x"), Product(<<Var("x"), Subscript("a", <<Var("j")>>)>>)>>)}
    \cup {Opaque(kd, <<Var("x")>>) : kd \in UnsupportedKinds}
    \cup {Sum(<<Var("x"), Opaque(kd, <<Var("x")>>)>>) : kd \in UnsupportedKinds}

CounterExprs == SubExprs \cup SumExprs \cup OtherExprs

InitCounter ==
    /\ pc = "start"
    /\ result = None
    /\ knl \in CounterKernels
    /\ expr \in CounterExprs
    /\ set = None
    /\ a = None /\ b = None /\ c = None /\ other = None
    /\ sched_idx = 0 /\ iname_list = <<>> /\ barrier_poly = None
    /\ insn_idx = 0 /\ subs_poly = None /\ op_poly = None /\ op_poly_dict = None /\ weighted = {}
    /\ write_footprints = <<>> /\ read_footprints = <<>>
    /\ warned = <<>>

CountOps ==
    /\ pc = "start"
    /\ pc' = "op_counted"
    /\ result' = ExpressionOpCounter(knl, expr)
    /\ UNCHANGED <<warned, mapVars, cntVars, opVars, barVars, gmemVars, fpVars>>

CountGmem ==
    /\ pc = "start"
    /\ pc' = "gmem_counted"
    /\ result' = GlobalSubscriptCounter(knl, expr)
    /\ UNCHANGED <<warned, mapVars, cntVars, opVars, barVars, gmemVars, fpVars>>

CountLmem ==
    /\ pc = "start"
    /\ pc' = "lmem_counted"
    /\ result' = LocalSubscriptCounter(knl, expr)
    /\ UNCHANGED <<warned, mapVars, cntVars, opVars, barVars, gmemVars, fpVars>>

NextCounter == CountOps \/ CountLmem \/ CountGmem

SpecCounter == InitCounter /\ [][NextCounter]_vars

IsAtom(e) == e.kind \in {"const", "var"}

OpKeys ==
    {TypedOp(dt, nm) : dt \in {"i32", "f32", "f64"},
                       nm \in {"add", "mul", "div", "pow", "shift", "bw", "maxmin",
                               "func:sin"}}

(* C5: for a sum node over k >= 1 atomic operands the operation counter     *)
(* yields exactly k-1 units under (inferred type, add) and zero under every *)
(* other operation key.                                                     *)
C5_SumOfAtoms ==
    (/\ pc = "op_counted"
     /\ expr.kind = "sum"
     /\ \A n \in DOMAIN expr.ch : IsAtom(expr.ch[n])) =>
        /\ result.err = ""
        /\ \A key \in OpKeys :
              ToCountMap_getitem(result.val, key).n =
                  IF key = TypedOp(type_inf(knl, expr), "add")
                  THEN Len(expr.ch) - 1 ELSE 0
        /\ DOMAIN result.val \subseteq OpKeys

C5_Witness ==
    /\ pc = "op_counted"
    /\ expr = Sum(<<Var("x"), Const(1), Var("i")>>)
    /\ result = Ok(ToCountMap(TypedOp("f32", "add"), PyInt(2)))

LaneInames(k, e) ==
    {iname \in get_dependencies(e) \cap all_inames(k) :
        k.iname_to_tag[iname].kind = "l"}

IsGlobalSubscript(k, e) ==
    /\ e.kind = "sub"
    /\ e.name \in DOMAIN k.arg_dict
    /\ k.arg_dict[e.name].is_global

(* the case of C3: array a with fixed stride st on its only dimension,     *)
(* indexed by i*cf + j, i mapped to lane dimension 0, j sequential          *)
C3Case(st, cf) ==
    /\ pc = "gmem_counted"
    /\ expr = Subscript("a", <<Lin(cf)>>)
    /\ knl.arg_dict["a"].dim_tags = <<FixedStrideArrayDimTag(st)>>
    /\ knl.iname_to_tag["i"] = LocalIndexTag(0)
    /\ knl.iname_to_tag["j"] = NoTag

(* C3 as stated: with stride s and index lane*s + offset the access is      *)
(* reported under stride class s.                                           *)
C3_Original ==
    \A s \in 1..MaxStride :
        C3Case(s, s) =>
            result = Ok(ToCountMap(StridedGmemAccess("f32", IntStride(s), "None", "a"),
                                   PyInt(1)))

(* C3 as amended: the access is reported under stride class s*s, the        *)
(* declared stride times the coefficient of the lane index (in general      *)
(* st*cf), never under the uniform class 0 or the sentinel.                 *)
C3_StrideTimesCoefficient ==
    \A st \in 1..MaxStride, cf \in 1..MaxCoeff :
        C3Case(st, cf) =>
            /\ result = Ok(ToCountMap(StridedGmemAccess("f32", IntStride(st * cf),
                                                        "None", "a"), PyInt(1)))
            /\ st * cf # 0 /\ st * cf # maxsize

C3_Witness == C3Case(2, 2) /\ result.err = ""

(* C4: a subscript into a global array whose index names no lane index     *)
(* contributes exactly one unit, under the stride-0 key of that array: the  *)
(* result is that unit plus the count of the index.                         *)
C4_UniformWithoutLaneIndex ==
    (/\ pc = "gmem_counted"
     /\ IsGlobalSubscript(knl, expr)
     /\ LaneInames(knl, expr) = {}) =>
        LET unit == ToCountMap(StridedGmemAccess(knl.arg_dict[expr.name].dtype,
                                   IntStride(0), "None", expr.name), PyInt(1))
            idx == gmem_sum(knl, expr.ch, Len(expr.ch))
        IN  IF idx.err # "" THEN result.err # ""
            ELSE result = Ok(ToCountMap_add(unit, idx.val))

C4_Witness ==
    /\ pc = "gmem_counted"
    /\ expr = Subscript("a", <<Product(<<Var("j"), Const(2)>>)>>)
    /\ knl.iname_to_tag["j"] = NoTag
    /\ knl.iname_to_tag["i"] = LocalIndexTag(0)
    /\ knl.arg_dict["a"].dim_tags = <<FixedStrideArrayDimTag(2)>>
    /\ result = Ok(ToCountMap(StridedGmemAccess("f32", IntStride(0), "None", "a"),
                              PyInt(1)))

----------------------------------------------------------------------------
(* The kernel's loop domain: [inames, bset], the basic set's dimensions     *)
(* named by inames, and whether the isl sets offer card() (barvinok).       *)

(* the positions of the kept dimensions, in the domain's order *)
RECURSIVE KeptSeq(_, _, _)
KeptSeq(dom, inames, n) ==
    IF n = 0 THEN <<>>
    ELSE IF dom.inames[n] \in inames
         THEN Append(KeptSeq(dom, inames, n - 1), n)
         ELSE KeptSeq(dom, inames, n - 1)

(* knl.get_inames_domain(inames).project_out_except(inames, [dim_type.set]) *)
project_out_except(k, inames) ==
    LET dom == k.domain
        kept == KeptSeq(dom, inames, Len(dom.inames))
    IN  [card |-> k.card,
         inames |-> [n \in DOMAIN kept |-> dom.inames[kept[n]]],
         bsets |-> <<BasicSet(Len(kept),
                              {[n \in DOMAIN kept |-> p[kept[n]]] : p \in dom.bset.pts},
                              [n \in DOMAIN kept |-> dom.bset.strides[kept[n]]])>>]

RangeOf(seq) == {seq[n] : n \in DOMAIN seq}

----------------------------------------------------------------------------
(* get_barrier_poly: the walk over knl.schedule *)

EnterLoop(iname) == [kind |-> "EnterLoop", iname |-> iname]
LeaveLoop(iname) == [kind |-> "LeaveLoop", iname |-> iname]
Barrier == [kind |-> "Barrier", iname |-> ""]
RunInstruction == [kind |-> "RunInstruction", iname |-> ""]

barrier_increment_innermost(k, inames) ==
    IF inames # <<>>
    THEN count(k, project_out_except(k, {inames[Len(inames)]}))
    ELSE [count |-> PwQPolynomial(1), warned |-> <<>>]

(* what one Barrier item adds to barrier_poly, and the diagnostics of count *)
barrier_increment(k, inames) ==
    IF inames # <<>>
    THEN count(k, project_out_except(k, RangeOf(inames)))
    ELSE [count |-> PwQPolynomial(1), warned |-> <<>>]

list_pop_first(l) == SubSeq(l, 2, Len(l))

(* list.pop(): the list without its last element *)
list_pop(l) == SubSeq(l, 1, Len(l) - 1)

sched_item == knl.schedule[sched_idx + 1]

Walking == pc = "walk" /\ sched_idx < Len(knl.schedule)

EnterLoopStep ==
    /\ Walking
    /\ sched_item.kind = "EnterLoop"
    /\ iname_list' = IF sched_item.iname # ""
                     THEN Append(iname_list, sched_item.iname)
                     ELSE iname_list
    /\ sched_idx' = sched_idx + 1
    /\ UNCHANGED <<pc, result, warned, barrier_poly, mapVars, cntVars, opVars, gmemVars, fpVars>>

LeaveLoopStep ==
    /\ Walking
    /\ sched_item.kind = "LeaveLoop"
    /\ IF sched_item.iname # ""
       THEN IF iname_list = <<>>
            THEN /\ pc' = "error"
                 /\ result' = Raise("IndexError")
                 /\ UNCHANGED <<iname_list, sched_idx>>
            ELSE /\ iname_list' = list_pop(iname_list)
                 /\ sched_idx' = sched_idx + 1
                 /\ UNCHANGED <<pc, result>>
       ELSE /\ sched_idx' = sched_idx + 1
            /\ UNCHANGED <<pc, result, iname_list>>
    /\ UNCHANGED <<warned, barrier_poly, mapVars, cntVars, opVars, gmemVars, fpVars>>

BarrierStep ==
    /\ Walking
    /\ sched_item.kind = "Barrier"
    /\ barrier_poly' = PyAdd(barrier_poly, barrier_increment(knl, iname_list).count)
    /\ warned' = warned \o barrier_increment(knl, iname_list).warned
    /\ sched_idx' = sched_idx + 1
    /\ UNCHANGED <<pc, result, iname_list, mapVars, cntVars, opVars, gmemVars, fpVars>>

OtherItemStep ==
    /\ Walking
    /\ sched_item.kind = "RunInstruction"
    /\ sched_idx' = sched_idx + 1
    /\ UNCHANGED <<pc, result, warned, iname_list, barrier_poly, mapVars, cntVars, opVars,
                   gmemVars, fpVars>>

ReturnBarrierPoly ==
    /\ pc = "walk"
    /\ sched_idx = Len(knl.schedule)
    /\ pc' = "done"
    /\ result' = barrier_poly
    /\ UNCHANGED <<warned, mapVars, cntVars, opVars, barVars, gmemVars, fpVars>>

NextBarrier ==
    EnterLoopStep \/ LeaveLoopStep \/ BarrierStep \/ OtherItemStep
    \/ ReturnBarrierPoly

(* Schedules as lp.get_one_scheduled_kernel produces them: well nested,     *)
(* every entered loop left, no loop entered while it is active.             *)
MaxSched == 5

SchedItems ==
    {EnterLoop(n) : n \in {"i", "j", ""}} \cup {LeaveLoop(n) : n \in {"i", "j", ""}}
    \cup {Barrier, RunInstruction}

(* the stack of open loops (nameless ones included) after the first n items, *)
(* <<"!">> once the prefix is not well nested                                *)
RECURSIVE OpenLoops(_, _)
OpenLoops(sched, n) ==
    IF n = 0 THEN <<>>
    ELSE LET prev == OpenLoops(sched, n - 1)
             it == sched[n]
         IN  IF prev = <<"!">> THEN prev
             ELSE IF it.kind = "EnterLoop"
                  THEN IF it.iname \in RangeOf(prev) THEN <<"!">>
                       ELSE Append(prev, it.iname)
             ELSE IF it.kind = "LeaveLoop"
                  THEN IF prev # <<>> /\ prev[Len(prev)] = it.iname
                       THEN SubSeq(prev, 1, Len(prev) - 1)
                       ELSE <<"!">>
             ELSE prev

WellNested(sched) == OpenLoops(sched, Len(sched)) = <<>>

Schedules ==
    {sched \in UNION {[1..n -> SchedItems] : n \in 0..MaxSched} :
        /\ WellNested(sched)
        /\ Cardinality({n \in DOMAIN sched : sched[n].kind = "RunInstruction"}) <= 1}

(* loop domains over (i, j): i in [0, N-1] with a step, j in [0, M-1],      *)
(* rectangular or triangular (j <= i)                                       *)
LoopDomain(N, M, s, shape) ==
    [inames |-> <<"i", "j">>,
     bset |-> BasicSet(2,
                {p \in Strided(0, N - 1, s) \X (0..(M - 1)) :
                    shape = "tri" => p[2] <= p[1]},
                <<IF s > 1 /\ N - 1 >= s THEN s ELSE 0, 0>>)]

BarrierDomains ==
    {LoopDomain(N, MaxExtent, s, shape) :
        N \in {MaxExtent - 1, MaxExtent1 - 1}, s \in {1, MaxStride},
        shape \in {"box", "tri"}}

InitBarrier ==
    /\ pc = "walk"
    /\ result = None
    /\ knl \in {[schedule |-> sched, domain |-> dom, card |-> cd] :
                    sched \in Schedules, dom \in BarrierDomains, cd \in BOOLEAN}
    /\ sched_idx = 0
    /\ iname_list = <<>>
    /\ barrier_poly = PwQPolynomial(0)
    /\ warned = <<>>
    /\ expr = None /\ set = None
    /\ a = None /\ b = None /\ c = None /\ other = None
    /\ insn_idx = 0 /\ subs_poly = None /\ op_poly = None /\ op_poly_dict = None /\ weighted = {}
    /\ write_footprints = <<>> /\ read_footprints = <<>>

SpecBarrier == InitBarrier /\ [][NextBarrier]_vars

(* the named loops entered and not yet left before item n of the schedule *)
ActiveAt(sched, n) ==
    {nm \in {"i", "j"} :
        Cardinality({m \in 1..(n - 1) : sched[m] = EnterLoop(nm)})
            > Cardinality({m \in 1..(n - 1) : sched[m] = LeaveLoop(nm)})}

RECURSIVE BarrierTotal(_, _)
BarrierTotal(k, n) ==
    IF n = 0 THEN 0
    ELSE BarrierTotal(k, n - 1)
         + (IF k.schedule[n].kind # "Barrier" THEN 0
            ELSE IF ActiveAt(k.schedule, n) = {} THEN 1
            ELSE count(k, project_out_except(k, ActiveAt(k.schedule, n))).count.n)

(* C1: the returned barrier total is the sum over the barrier events of the *)
(* domain counter's count of the domain restricted to the loop indices      *)
(* active at the event, and of one where none is active; enter(i), barrier, *)
(* leave(i) gives the number of values of i, a bare barrier gives 1.        *)
C1_BarrierTotal ==
    pc = "done" =>
        /\ result = PwQPolynomial(BarrierTotal(knl, Len(knl.schedule)))
        /\ knl.schedule = <<EnterLoop("i"), Barrier, LeaveLoop("i")>> =>
              result.n = Cardinality({p[1] : p \in knl.domain.bset.pts})
        /\ knl.schedule = <<Barrier>> => result = PwQPolynomial(1)

C1_Witness ==
    /\ pc = "done"
    /\ knl.schedule = <<EnterLoop("i"), Barrier, LeaveLoop("i")>>
    /\ knl.domain = LoopDomain(8, MaxExtent, 1, "box")
    /\ ~knl.card
    /\ result = PwQPolynomial(8)

C1_WitnessNested ==
    /\ pc = "done"
    /\ knl.schedule = <<EnterLoop("i"), EnterLoop("j"), Barrier, LeaveLoop("j"),
                        LeaveLoop("i")>>
    /\ result.n > 8

----------------------------------------------------------------------------
(* get_gmem_access_poly: one step per instruction of knl.instructions *)

(* an Assignment, with knl.insn_inames(insn) *)
Instruction(assignee, expression, inames) ==
    [is_assignment |-> TRUE, assignee |-> assignee, expression |-> expression,
     inames |-> inames]

get_insn_count_full(k, insn_inames, uniform) ==
    count(k, project_out_except(k, insn_inames))

(* memoized on (insn_inames, uniform) *)
get_insn_count(k, insn_inames, uniform) ==
    IF uniform
    THEN count(k, project_out_except(k,
                {iname \in insn_inames : ~is_local_tag(k.iname_to_tag[iname])}))
    ELSE count(k, project_out_except(k, insn_inames))

(* the loop that re-keys a counter's dict with direction='load'/'store',    *)
(* when it runs to its end                                                  *)
relabel(dict, direction) ==
    LET new(key) == StridedGmemAccess(key.dtype, key.stride, direction, key.variable)
    IN  [nk \in {new(key) : key \in DOMAIN dict} |->
            dict[CHOOSE key \in DOMAIN dict : new(key) = nk]]

(* isinstance(key.stride, int) and key.stride == 0 *)
is_uniform(key) == key.stride = IntStride(0)

(* sum over the keys of dict of ToCountMap({key: dict[key]})*get_insn_count *)
RECURSIVE weigh_keys(_, _, _, _)
weigh_keys(k, insn_inames, dict, keys) ==
    IF keys = {} THEN Ok(EmptyMap)
    ELSE LET key == CHOOSE x \in keys : TRUE
             poly == ToCountMap(key, dict[key])
         IN  Plus(ToCountMap_mul(poly,
                      get_insn_count(k, insn_inames, is_uniform(key)).count),
                  weigh_keys(k, insn_inames, dict, keys \ {key}))

insn == knl.instructions[insn_idx + 1]
subs_expr == GlobalSubscriptCounter(knl, insn.expression)
subs_assignee == GlobalSubscriptCounter(knl, insn.assignee)

weigh_insn ==
    IF subs_expr.err # "" THEN subs_expr
    ELSE IF subs_assignee.err # "" THEN subs_assignee
    ELSE LET loads == relabel(subs_expr.val, "load")
             stores == relabel(subs_assignee.val, "store")
         IN  Plus(Plus(Ok(subs_poly),
                       weigh_keys(knl, insn.inames, loads, DOMAIN loads)),
                  weigh_keys(knl, insn.inames, stores, DOMAIN stores))

(* the accesses weighted for this instruction: key, units, weight used *)
insn_weighted ==
    LET dict == ToCountMap_add(relabel(subs_expr.val, "load"),
                               relabel(subs_assignee.val, "store"))
    IN  {[insn |-> insn_idx + 1, key |-> key, units |-> dict[key],
          weight |-> get_insn_count(knl, insn.inames, is_uniform(key)).count] :
            key \in DOMAIN dict}

(* the diagnostics of the get_insn_count calls not served from the cache *)
insn_warned ==
    LET cached == {<<knl.instructions[w.insn].inames, is_uniform(w.key)>> : w \in weighted}
        flags == {is_uniform(w.key) : w \in insn_weighted}
        fresh(f) == f \in flags /\ <<insn.inames, f>> \notin cached
    IN  (IF fresh(TRUE) THEN get_insn_count(knl, insn.inames, TRUE).warned ELSE <<>>)
        \o (IF fresh(FALSE) THEN get_insn_count(knl, insn.inames, FALSE).warned ELSE <<>>)

InInsnLoop == pc = "loop" /\ insn_idx < Len(knl.instructions)

CountInsn ==
    /\ InInsnLoop
    /\ IF weigh_insn.err # ""
       THEN /\ pc' = "error"
            /\ result' = weigh_insn
            /\ UNCHANGED <<warned, gmemVars>>
       ELSE /\ subs_poly' = weigh_insn.val
            /\ weighted' = weighted \cup insn_weighted
            /\ warned' = warned \o insn_warned
            /\ insn_idx' = insn_idx + 1
            /\ UNCHANGED <<pc, result>>
    /\ UNCHANGED <<mapVars, cntVars, opVars, barVars, fpVars>>

(* The re-keying loops pop and insert keys of the dict they iterate over:   *)
(* on a non-empty dict the interpreter may end the loop with RuntimeError   *)
(* (dictionary keys changed during iteration) instead of completing it.     *)
KeysChangedDuringIteration ==
    /\ InInsnLoop
    /\ subs_expr.err = ""
    /\ \/ DOMAIN subs_expr.val # {}
       \/ subs_assignee.err = "" /\ DOMAIN subs_assignee.val # {}
    /\ pc' = "error"
    /\ result' = Raise("RuntimeError")
    /\ UNCHANGED <<warned, mapVars, cntVars, opVars, barVars, gmemVars, fpVars>>

ReturnSubsPoly ==
    /\ pc = "loop"
    /\ insn_idx = Len(knl.instructions)
    /\ pc' = "done"
    /\ result' = subs_poly
    /\ UNCHANGED <<warned, mapVars, cntVars, opVars, barVars, gmemVars, fpVars>>

NextGmem == CountInsn \/ KeysChangedDuringIteration \/ ReturnSubsPoly

MaxInsns == 2

Insns ==
    {Instruction(Subscript("a", <<Var("i")>>), Subscript("a", <<Var("j")>>), {"i", "j"}),
     Instruction(Subscript("a", <<Lin(MaxCoeff)>>), Subscript("b", <<Var("i"), Var("j")>>),
                 {"i", "j"}),
     Instruction(Subscript("a", <<Var("j")>>),
                 Sum(<<Subscript("a", <<Var("j")>>), Subscript("a", <<Var("j")>>)>>),
                 {"j"}),
     Instruction(Subscript("d", <<Var("i")>>), Subscript("a", <<Const(0)>>), {"i"}),
     Instruction(Var("x"), Sum(<<Subscript("t", <<Var("i")>>), Const(1)>>), {"i"}),
     Instruction(Subscript("a", <<Const(0)>>), Var("x"), {}),
     Instruction(Var("x"), Subscript("a", <<Product(<<Var("i"), Var("j")>>)>>),
                 {"i", "j"})}

GmemDomains == {LoopDomain(MaxExtent + 1, MaxExtent, 1, shape) : shape \in {"box", "tri"}}

GmemKernels ==
    {[iname_to_tag |-> ck.iname_to_tag, arg_dict |-> ck.arg_dict,
      temporary_variables |-> ck.temporary_variables,
      domain |-> dom, card |-> cd, instructions |-> insns] :
        ck \in {x \in CounterKernels :
                    /\ x.arg_dict = ArgDict(MaxStride)
                    /\ x.iname_to_tag["j"] \in {NoTag, LocalIndexTag(0)}
                    /\ x.iname_to_tag["i"] = GroupIndexTag(0)
                          => x.iname_to_tag["j"] = NoTag},
        dom \in GmemDomains, cd \in BOOLEAN,
        insns \in UNION {[1..n -> Insns] : n \in 0..MaxInsns}}

InitGmem ==
    /\ pc = "loop"
    /\ result = None
    /\ knl \in GmemKernels
    /\ insn_idx = 0
    /\ subs_poly = EmptyMap
    /\ weighted = {}
    /\ op_poly = None /\ op_poly_dict = None
    /\ warned = <<>>
    /\ expr = None /\ set = None
    /\ a = None /\ b = None /\ c = None /\ other = None
    /\ sched_idx = 0 /\ iname_list = <<>> /\ barrier_poly = None
    /\ write_footprints = <<>> /\ read_footprints = <<>>

SpecGmem == InitGmem /\ [][NextGmem]_vars

LaneInamesOf(k, inames) == {n \in inames : k.iname_to_tag[n].kind = "l"}

(* the count of the kernel's domain restricted to the loop indices inames *)
DomainCount(k, inames) == count(k, project_out_except(k, inames)).count

RECURSIVE SumWeighted(_)
SumWeighted(ws) ==
    IF ws = {} THEN PyInt(0)
    ELSE LET w == CHOOSE x \in ws : TRUE
         IN  PyAdd(PyMul(w.units, w.weight), SumWeighted(ws \ {w}))

(* the accesses the subscript counter classifies in instruction n *)
ClassifiedAt(k, n) ==
    LET ld == GlobalSubscriptCounter(k, k.instructions[n].expression).val
        st == GlobalSubscriptCounter(k, k.instructions[n].assignee).val
    IN  {[insn |-> n, key |-> StridedGmemAccess(key.dtype, key.stride, "load",
                                                key.variable),
          units |-> ld[key]] : key \in DOMAIN ld}
        \cup {[insn |-> n, key |-> StridedGmemAccess(key.dtype, key.stride, "store",
                                                     key.variable),
               units |-> st[key]] : key \in DOMAIN st}

(* C2: every access of stride class exactly 0 is weighted by the count of   *)
(* the instruction's domain with the lane-mapped loop indices removed,      *)
(* every other access by the count over the instruction's full loop-index   *)
(* set; a returned map holds every classified access with that weight.      *)
C2_WeightByUniformity ==
    /\ \A w \in weighted :
          LET inames == knl.instructions[w.insn].inames
          IN  w.weight = IF w.key.stride = <<0>>
                         THEN DomainCount(knl, inames \ LaneInamesOf(knl, inames))
                         ELSE DomainCount(knl, inames)
    /\ pc = "done" =>
          /\ {[insn |-> w.insn, key |-> w.key, units |-> w.units] : w \in weighted}
                = UNION {ClassifiedAt(knl, n) : n \in DOMAIN knl.instructions}
          /\ DOMAIN result = {w.key : w \in weighted}
          /\ \A key \in DOMAIN result :
                result[key] = SumWeighted({w \in weighted : w.key = key})

C2_Witness ==
    /\ pc = "done"
    /\ \E w1 \in weighted, w2 \in weighted :
          /\ w1.insn = w2.insn
          /\ w1.key.stride = <<0>>
          /\ w2.key.stride \notin {<<0>>, <<>>}
          /\ w1.weight = PwQPolynomial(MaxExtent)
          /\ w2.weight = PwQPolynomial((MaxExtent + 1) * MaxExtent)

----------------------------------------------------------------------------
(* AccessFootprintGatherer and gather_access_footprints.  A footprint is    *)
(* the set of index tuples touched; a mapper result is a Python value:      *)
(* a dict (array name -> footprint) or None.                                *)

FpDict(d) == [err |-> "", none |-> FALSE, val |-> d]
FpNone == [err |-> "", none |-> TRUE, val |-> <<>>]
FpRaise(e) == [err |-> e, none |-> FALSE, val |-> <<>>]

(* an instruction that is no Assignment *)
CInstruction(inames) ==
    [is_assignment |-> FALSE, assignee |-> Const(0), expression |-> Const(0),
     inames |-> inames]

RECURSIVE is_affine(_, _)
is_affine(e, inames) ==
    CASE e.kind = "const" -> TRUE
      [] e.kind = "var" -> e.name \in inames
      [] e.kind = "sum" -> \A n \in DOMAIN e.ch : is_affine(e.ch[n], inames)
      [] e.kind = "prod" ->
            /\ \A n \in DOMAIN e.ch : is_affine(e.ch[n], inames)
            /\ Cardinality({n \in DOMAIN e.ch : HasVars(e.ch[n])}) <= 1
      [] OTHER -> FALSE

RECURSIVE eval_aff(_, _)
RECURSIVE eval_sum(_, _, _)
RECURSIVE eval_product(_, _, _)
eval_sum(ch, env, n) ==
    IF n = 0 THEN 0 ELSE eval_sum(ch, env, n - 1) + eval_aff(ch[n], env)
eval_product(ch, env, n) ==
    IF n = 0 THEN 1 ELSE eval_product(ch, env, n - 1) * eval_aff(ch[n], env)
eval_aff(e, env) ==
    CASE e.kind = "const" -> e.val
      [] e.kind = "var" -> env[e.name]
      [] e.kind = "sum" -> eval_sum(e.ch, env, Len(e.ch))
      [] OTHER -> eval_product(e.ch, env, Len(e.ch))

(* loopy.symbolic.get_access_range: the image of the domain under the       *)
(* affine index map; isl.Error / TypeError on an index that is not affine   *)
get_access_range(dom, subscript) ==
    IF \A n \in DOMAIN subscript : is_affine(subscript[n], RangeOf(dom.inames))
    THEN Ok({[n \in DOMAIN subscript |->
                eval_aff(subscript[n],
                         [nm \in RangeOf(dom.inames) |->
                            p[CHOOSE m \in DOMAIN dom.inames : dom.inames[m] = nm]])] :
             p \in dom.bsets[1].pts})
    ELSE Raise("isl.Error")

merge_dicts_overwrite(x, y) ==
    [var_name \in DOMAIN x \cup DOMAIN y |->
        IF var_name \in DOMAIN y THEN y[var_name] ELSE x[var_name]]

merge_dicts(x, y) ==
    [var_name \in DOMAIN x \cup DOMAIN y |->
        IF var_name \in DOMAIN y
        THEN IF var_name \in DOMAIN x THEN x[var_name] \cup y[var_name]
             ELSE y[var_name]
        ELSE x[var_name]]

(* reduce(merge_dicts, values) over the first n values; a None operand      *)
(* fails in a.copy() or six.iteritems(b)                                    *)
RECURSIVE reduce_merge(_, _)
reduce_merge(values, n) ==
    IF n = 1 THEN values[1]
    ELSE LET prev == reduce_merge(values, n - 1)
         IN  IF prev.err # "" THEN prev
             ELSE IF prev.none \/ values[n].none THEN FpRaise("AttributeError")
             ELSE FpDict(merge_dicts(prev.val, values[n].val))

(* AccessFootprintGatherer.combine *)
combine(values) ==
    IF values = <<>> THEN FpRaise("AssertionError")
    ELSE reduce_merge(values, Len(values))

RECURSIVE afg_rec(_, _)

(* combine over the children, the first exception of a child propagating *)
afg_children(dom, ch) ==
    LET values == [n \in DOMAIN ch |-> afg_rec(dom, ch[n])]
        failed == {n \in DOMAIN ch : values[n].err # ""}
    IN  IF failed # {} THEN values[SetMin(failed)]
        ELSE combine(values)

afg_map_subscript(dom, e) ==
    LET access_range == get_access_range(dom, e.ch)
        rec_index == IF Len(e.ch) = 1 THEN afg_rec(dom, e.ch[1])
                     ELSE afg_children(dom, e.ch)
    IN  IF access_range.err # "" THEN FpNone
        ELSE IF rec_index.err # "" THEN rec_index
        ELSE combine(<<rec_index, FpDict([v \in {e.name} |-> access_range.val])>>)

afg_rec(dom, e) ==
    CASE e.kind \in {"const", "var"} -> FpDict(<<>>)
      [] e.kind = "sub" -> afg_map_subscript(dom, e)
      [] OTHER -> afg_children(dom, e.ch)

AccessFootprintGatherer(dom, e) == afg_rec(dom, e)

InGatherLoop == pc = "gather" /\ insn_idx < Len(knl.instructions)

SkipNonAssignment ==
    /\ InGatherLoop
    /\ ~insn.is_assignment
    /\ warned' = Append(warned, "count_non_assignment")
    /\ insn_idx' = insn_idx + 1
    /\ UNCHANGED <<pc, result, subs_poly, weighted, mapVars, cntVars, opVars, barVars, fpVars>>

GatherInsn ==
    /\ InGatherLoop
    /\ insn.is_assignment
    /\ LET domain == project_out_except(knl, insn.inames)
           w == AccessFootprintGatherer(domain, insn.assignee)
           r == AccessFootprintGatherer(domain, insn.expression)
       IN  IF w.err # "" \/ r.err # ""
           THEN /\ pc' = "error"
                /\ result' = Raise(IF w.err # "" THEN w.err ELSE r.err)
                /\ UNCHANGED <<insn_idx, fpVars>>
           ELSE /\ write_footprints' = Append(write_footprints, w)
                /\ read_footprints' = Append(read_footprints, r)
                /\ insn_idx' = insn_idx + 1
                /\ UNCHANGED <<pc, result>>
    /\ UNCHANGED <<warned, subs_poly, weighted, mapVars, cntVars, opVars, barVars>>

ReturnFootprints ==
    /\ pc = "gather"
    /\ insn_idx = Len(knl.instructions)
    /\ LET w == combine(write_footprints)
           r == combine(read_footprints)
       IN  IF w.err # "" \/ r.err # ""
           THEN /\ pc' = "error"
                /\ result' = Raise(IF w.err # "" THEN w.err ELSE r.err)
           ELSE IF w.none \/ r.none
           THEN /\ pc' = "error"
                /\ result' = Raise("AttributeError")
           ELSE /\ pc' = "done"
                /\ result' = [key \in ((DOMAIN w.val) \X {"write"})
                                        \cup ((DOMAIN r.val) \X {"read"}) |->
                                IF key[2] = "write" THEN w.val[key[1]]
                                ELSE r.val[key[1]]]
    /\ UNCHANGED <<warned, mapVars, cntVars, opVars, barVars, gmemVars, fpVars>>

NextFootprint == SkipNonAssignment \/ GatherInsn \/ ReturnFootprints

MaxFpInsns == 2

Shift(nm, k) == Sum(<<Var(nm), Const(k)>>)

FpInsns ==
    {Instruction(Subscript("a", <<Var("i")>>), Subscript("a", <<Var("j")>>), {"i", "j"}),
     Instruction(Subscript("a", <<Shift("i", 1)>>), Subscript("b", <<Var("i"), Var("j")>>),
                 {"i", "j"}),
     Instruction(Subscript("a", <<Product(<<Var("j"), Const(MaxCoeff)>>)>>),
                 Sum(<<Subscript("a", <<Var("i")>>), Subscript("a", <<Shift("i", 1)>>)>>),
                 {"i", "j"}),
     Instruction(Subscript("b", <<Var("i"), Const(0)>>), Subscript("a", <<Const(0)>>),
                 {"i"}),
     Instruction(Var("x"), Const(1), {}),
     Instruction(Var("x"), Subscript("a", <<Product(<<Var("i"), Var("j")>>)>>),
                 {"i", "j"}),
     CInstruction({"i"})}

FpDomains ==
    {LoopDomain(N, MaxExtent, s, shape) :
        N \in {MaxExtent, MaxExtent + 1}, s \in {1, MaxStride}, shape \in {"box", "tri"}}

InitFootprint ==
    /\ pc = "gather"
    /\ result = None
    /\ knl \in {[domain |-> dom, card |-> FALSE, instructions |-> insns] :
                    dom \in FpDomains,
                    insns \in UNION {[1..n -> FpInsns] : n \in 0..MaxFpInsns}}
    /\ insn_idx = 0
    /\ write_footprints = <<>> /\ read_footprints = <<>>
    /\ warned = <<>>
    /\ subs_poly = None /\ op_poly = None /\ op_poly_dict = None /\ weighted = {}
    /\ expr = None /\ set = None
    /\ a = None /\ b = None /\ c = None /\ other = None
    /\ sched_idx = 0 /\ iname_list = <<>> /\ barrier_poly = None

SpecFootprint == InitFootprint /\ [][NextFootprint]_vars

(* the subscript nodes of an expression, those inside indices included *)
RECURSIVE SubscriptsIn(_)
SubscriptsIn(e) ==
    IF e.kind \in {"const", "var"} THEN {}
    ELSE (IF e.kind = "sub" THEN {e} ELSE {})
         \cup UNION {SubscriptsIn(e.ch[n]) : n \in DOMAIN e.ch}

(* the individual footprints of array v in direction dir *)
IndividualFootprints(k, v, dir) ==
    UNION {LET ins == k.instructions[n]
               pos == IF dir = "write" THEN ins.assignee ELSE ins.expression
           IN  {get_access_range(project_out_except(k, ins.inames), s.ch).val :
                    s \in {t \in SubscriptsIn(pos) : t.name = v}} :
           n \in {m \in DOMAIN k.instructions : k.instructions[m].is_assignment}}

(* C10: a returned mapping holds, per (array, direction), exactly one       *)
(* entry when the array is accessed in that direction and none otherwise;   *)
(* the entry is the union of all the individual footprints of that          *)
(* direction, over all instructions and subscripts, and of no other.        *)
C10_MergedPerArrayDirection ==
    pc = "done" =>
        /\ (DOMAIN result) \subseteq ({"a", "b"} \X {"write", "read"})
        /\ \A v \in {"a", "b"}, dir \in {"write", "read"} :
              LET parts == IndividualFootprints(knl, v, dir)
              IN  IF parts = {} THEN <<v, dir>> \notin DOMAIN result
                  ELSE /\ <<v, dir>> \in DOMAIN result
                       /\ result[<<v, dir>>] = UNION parts

C10_Witness ==
    /\ pc = "done"
    /\ knl.domain = LoopDomain(MaxExtent, MaxExtent, 1, "box")
    /\ Len(knl.instructions) = 2
    /\ knl.instructions[1].assignee = Subscript("a", <<Var("i")>>)
    /\ knl.instructions[2].assignee = Subscript("a", <<Shift("i", 1)>>)
    /\ Cardinality(IndividualFootprints(knl, "a", "write")) = 2
    /\ result[<<"a", "write">>] = {<<x>> : x \in 0..MaxExtent}
    /\ result[<<"a", "read">>] = {<<x>> : x \in 0..(MaxExtent - 1)}

----------------------------------------------------------------------------
(* get_op_poly: one step per instruction; sum_ops_to_dtypes on a mapping *)

op_insn_expression_only(k, ins, poly) ==
    LET ops == ExpressionOpCounter(k, ins.expression)
        ct == count(k, project_out_except(k, ins.inames))
        scaled == IF ops.err # "" THEN ops ELSE ToCountMap_mul(ops.val, ct.count)
    IN  [out |-> Plus(Ok(poly), scaled),
         warned |-> IF ops.err # "" THEN <<>> ELSE ct.warned]

(* the loop body: op_poly + ops*count(knl, domain), and the diagnostics of  *)
(* count (none when a counter raised before count was called)               *)
op_insn(k, ins, poly) ==
    LET ops == Plus(ExpressionOpCounter(k, ins.assignee),
                    ExpressionOpCounter(k, ins.expression))
        ct == count(k, project_out_except(k, ins.inames))
        scaled == IF ops.err # "" THEN ops ELSE ToCountMap_mul(ops.val, ct.count)
    IN  [out |-> Plus(Ok(poly), scaled),
         warned |-> IF ops.err # "" THEN <<>> ELSE ct.warned]

InOpLoop == pc = "count_ops" /\ insn_idx < Len(knl.instructions)

OpInsnStep ==
    /\ InOpLoop
    /\ LET step == op_insn(knl, insn, op_poly)
       IN  /\ warned' = warned \o step.warned
           /\ IF step.out.err # ""
              THEN /\ pc' = "error"
                   /\ result' = step.out
                   /\ UNCHANGED <<insn_idx, op_poly>>
              ELSE /\ op_poly' = step.out.val
                   /\ insn_idx' = insn_idx + 1
                   /\ UNCHANGED <<pc, result>>
    /\ UNCHANGED <<op_poly_dict, subs_poly, weighted, mapVars, cntVars, barVars, fpVars>>

ReturnOpPoly ==
    /\ pc = "count_ops"
    /\ insn_idx = Len(knl.instructions)
    /\ pc' = "done"
    /\ result' = op_poly
    /\ UNCHANGED <<warned, mapVars, cntVars, opVars, barVars, gmemVars, fpVars>>

(* a key that is a Python tuple (dtype, kind) *)
TupleKey(dtype, kind) == [tuple |-> <<dtype, kind>>]

(* whether "for (dtype, kind), v in ..." can unpack the key: a TypedOp      *)
(* defines neither __iter__ nor __getitem__                                 *)
unpacks(key) == "tuple" \in DOMAIN key

RECURSIVE sum_ops_loop(_, _)
sum_ops_loop(dict, keys) ==
    IF keys = {} THEN Ok(<<>>)
    ELSE LET key == CHOOSE k \in keys : TRUE
             prev == sum_ops_loop(dict, keys \ {key})
         IN  IF prev.err # "" THEN prev
             ELSE IF ~unpacks(key) THEN Raise("TypeError")
             ELSE LET new_key == key.tuple[1]
                      v == dict[key]
                  IN  Ok([dt \in DOMAIN prev.val \cup {new_key} |->
                            IF dt # new_key THEN prev.val[dt]
                            ELSE IF new_key \in DOMAIN prev.val
                                 THEN PyAdd(prev.val[dt], v)
                                 ELSE v])

sum_ops_to_dtypes(dict) == sum_ops_loop(dict, DOMAIN dict)

(* the mapping keyed by (dtype, kind) tuples, as get_op_poly documents it *)
DocumentedKeys(dict) ==
    [key \in {TupleKey(k.dtype, k.name) : k \in DOMAIN dict} |->
        dict[TypedOp(key.tuple[1], key.tuple[2])]]

SumOpsToDtypes ==
    /\ pc = "done"
    /\ \E arg \in {result, DocumentedKeys(result)} :
          /\ op_poly_dict' = arg
          /\ result' = sum_ops_to_dtypes(arg)
    /\ pc' = "summed"
    /\ UNCHANGED <<warned, op_poly, mapVars, cntVars, barVars, gmemVars, fpVars>>

NextOp == OpInsnStep \/ ReturnOpPoly \/ SumOpsToDtypes

MaxOpInsns == 2

OpInsns ==
    {Instruction(Subscript("a", <<Var("i")>>),
                 Sum(<<Subscript("a", <<Var("j")>>), Var("x")>>), {"i", "j"}),
     Instruction(Var("x"), Sum(<<Product(<<Var("x"), Var("x")>>), Const(1)>>), {"i"}),
     Instruction(Var("x"), Product(<<Const(-1), Var("x")>>), {}),
     Instruction(Subscript("b", <<Var("i"), Var("j")>>),
                 Product(<<Subscript("b", <<Var("i"), Var("j")>>), Const(2)>>),
                 {"i", "j"}),
     Instruction(Subscript("a", <<Sum(<<Var("i"), Const(1)>>)>>),
                 Call("sin", <<Var("x")>>), {"i"}),
     Instruction(Var("x"), Sum(<<Var("x"), Const(1)>>), {}),
     Instruction(Var("x"), Opaque("common_subexpression", <<Var("x")>>), {"i"})}

OpKernels ==
    {[iname_to_tag |-> [n \in {"i", "j"} |-> NoTag], arg_dict |-> ArgDict(1),
      temporary_variables |-> Temporaries,
      domain |-> dom, card |-> cd, instructions |-> insns] :
        dom \in GmemDomains, cd \in BOOLEAN,
        insns \in UNION {[1..n -> OpInsns] : n \in 0..MaxOpInsns}}

InitOp ==
    /\ pc = "count_ops"
    /\ result = None
    /\ knl \in OpKernels
    /\ insn_idx = 0
    /\ op_poly = EmptyMap
    /\ op_poly_dict = None
    /\ warned = <<>>
    /\ subs_poly = None /\ weighted = {}
    /\ expr = None /\ set = None
    /\ a = None /\ b = None /\ c = None /\ other = None
    /\ sched_idx = 0 /\ iname_list = <<>> /\ barrier_poly = None
    /\ write_footprints = <<>> /\ read_footprints = <<>>

SpecOp == InitOp /\ [][NextOp]_vars

RECURSIVE SumOver(_, _)
SumOver(f, S) ==
    IF S = {} THEN PyInt(0)
    ELSE LET x == CHOOSE y \in S : TRUE IN PyAdd(f[x], SumOver(f, S \ {x}))

(* C11: sum_ops_to_dtypes applied to the mapping get_op_poly returned gives *)
(* one entry per value type present in it, no other entry, each the sum of  *)
(* the counts of all operation kinds of that value type.                    *)
C11_SumOpsRoundTrip ==
    (pc = "summed" /\ op_poly_dict = op_poly) =>
        /\ result.err = ""
        /\ DOMAIN result.val = {k.dtype : k \in DOMAIN op_poly}
        /\ \A dt \in DOMAIN result.val :
              result.val[dt] = SumOver(op_poly, {k \in DOMAIN op_poly : k.dtype = dt})

C11_Witness ==
    /\ pc = "summed"
    /\ op_poly_dict = op_poly
    /\ Cardinality({k.dtype : k \in DOMAIN op_poly}) = 2
    /\ result = Raise("TypeError")

(* the totals are as claimed once the keys are the documented tuples *)
SumOpsOnTupleKeys ==
    (pc = "summed" /\ op_poly_dict # op_poly) =>
        /\ result.err = ""
        /\ DOMAIN result.val = {k.dtype : k \in DOMAIN op_poly}
        /\ \A dt \in DOMAIN result.val :
              result.val[dt] = SumOver(op_poly, {k \in DOMAIN op_poly : k.dtype = dt})

(* units of key under the operation counter, zero when the key is absent *)
UnitsOf(k, e, key) == get(ExpressionOpCounter(k, e).val, key, PyInt(0))

OpKeysOf(k, ins) ==
    DOMAIN ExpressionOpCounter(k, ins.assignee).val
    \cup DOMAIN ExpressionOpCounter(k, ins.expression).val

(* key-wise sum over the set of instructions of (target + value) * count *)
KeywiseTotal(k) ==
    LET idx == DOMAIN k.instructions
        keys == UNION {OpKeysOf(k, k.instructions[n]) : n \in idx}
        term(key) ==
            [n \in idx |->
                PyMul(PyAdd(UnitsOf(k, k.instructions[n].assignee, key),
                            UnitsOf(k, k.instructions[n].expression, key)),
                      DomainCount(k, k.instructions[n].inames))]
    IN  [key \in keys |->
            SumOver(term(key), {n \in idx : key \in OpKeysOf(k, k.instructions[n])})]

(* get_op_poly's loop run over the first n instructions of a list *)
RECURSIVE op_fold(_, _, _)
op_fold(k, insns, n) ==
    IF n = 0 THEN Ok(EmptyMap)
    ELSE LET prev == op_fold(k, insns, n - 1)
         IN  IF prev.err # "" THEN prev
             ELSE op_insn(k, insns[n], prev.val).out

Reorderings(insns) ==
    {[n \in DOMAIN insns |-> insns[pi[n]]] :
        pi \in {f \in [DOMAIN insns -> DOMAIN insns] :
                    \A x, y \in DOMAIN insns : f[x] = f[y] => x = y}}

(* C17: the returned mapping is the key-wise sum over the instructions of   *)
(* (operation counts of target + of value) times the count of the           *)
(* instruction's domain, and every processing order of the instructions     *)
(* returns the same mapping.                                                *)
C17_KeywiseSumAnyOrder ==
    pc = "done" =>
        /\ result = KeywiseTotal(knl)
        /\ \A insns \in Reorderings(knl.instructions) :
              op_fold(knl, insns, Len(insns)) = Ok(result)

C17_Witness ==
    /\ pc = "done"
    /\ Len(knl.instructions) = 2
    /\ knl.instructions[1] # knl.instructions[2]
    /\ knl.instructions[1].inames # knl.instructions[2].inames
    /\ TypedOp("f32", "add") \in DOMAIN result
    /\ TypedOp("f32", "mul") \in DOMAIN result
    /\ result[TypedOp("f32", "add")].n > result[TypedOp("f32", "mul")].n

(* C19: a non-empty domain with no set dimensions counts as one with and    *)
(* without the exact backend, so that get_op_poly does not fail on an       *)
(* instruction nested in no loop and weights its operation counts by one.   *)
C19_LooplessCountsOne ==
    /\ count(knl, project_out_except(knl, {})).count = PwQPolynomial(1)
    /\ pc = "error" => result.err # "ValueError"

C19_Witness ==
    /\ pc = "done"
    /\ knl.card
    /\ knl.instructions = <<Instruction(Var("x"), Sum(<<Var("x"), Const(1)>>), {})>>
    /\ result = ToCountMap(TypedOp("f32", "add"), PwQPolynomial(1))

C19_WithBackend ==
    knl.card => count(knl, project_out_except(knl, {})).count = PwQPolynomial(1)

(* the unsupported node kinds an expression contains *)
RECURSIVE KindsIn(_)
KindsIn(e) ==
    IF e.kind \in {"const", "var"} THEN {}
    ELSE (IF e.kind \in UnsupportedKinds THEN {e.kind} ELSE {})
         \cup UNION {KindsIn(e.ch[n]) : n \in DOMAIN e.ch}

Unsupported(kinds) == {"NotImplementedError: " \o kd : kd \in kinds}

GmemErrorFromCoefficients ==
    /\ pc = "gmem_counted"
    /\ KindsIn(expr) # {}
    /\ result.err \notin Unsupported(UnsupportedKinds)

(* the subscripts of the kernel's assignments whose index is not affine *)
NonLinearSubscripts(k) ==
    UNION {LET ins == k.instructions[n]
           IN  {t \in SubscriptsIn(ins.assignee) \cup SubscriptsIn(ins.expression) :
                    get_access_range(project_out_except(k, ins.inames), t.ch).err # ""} :
           n \in {m \in DOMAIN k.instructions : k.instructions[m].is_assignment}}

(* the footprints of array v in direction dir over the affine subscripts *)
AffineFootprints(k, v, dir) ==
    UNION {LET ins == k.instructions[n]
               pos == IF dir = "write" THEN ins.assignee ELSE ins.expression
               dom == project_out_except(k, ins.inames)
           IN  {get_access_range(dom, t.ch).val :
                    t \in {u \in SubscriptsIn(pos) :
                              u.name = v /\ get_access_range(dom, u.ch).err = ""}} :
           n \in {m \in DOMAIN k.instructions : k.instructions[m].is_assignment}}

(* C13: with a subscript whose index is non-linear, gathering does not      *)
(* fail; the subscript contributes no footprint and the returned mapping    *)
(* holds the merged footprints of all the other subscripts.                 *)
C13_NonLinearIndexDropped ==
    NonLinearSubscripts(knl) # {} =>
        /\ pc # "error"
        /\ pc = "done" =>
              \A v \in {"a", "b"}, dir \in {"write", "read"} :
                  LET parts == AffineFootprints(knl, v, dir)
                  IN  IF parts = {} THEN <<v, dir>> \notin DOMAIN result
                      ELSE /\ <<v, dir>> \in DOMAIN result
                           /\ result[<<v, dir>>] = UNION parts

C13_Witness ==
    /\ pc = "error"
    /\ result = Raise("AttributeError")
    /\ Len(knl.instructions) = 2
    /\ NonLinearSubscripts(knl) = {Subscript("a", <<Product(<<Var("i"), Var("j")>>)>>)}
    /\ write_footprints = <<FpDict(<<>>), FpDict(<<>>)>>

(* a kernel with a non-linear subscript never gets a mapping back *)
NonLinearIndexIsFatal ==
    (NonLinearSubscripts(knl) # {} /\ pc # "gather") => pc = "error"

(* the named loops entered and not yet left after n items, by entry *)
NamedOpenLoops(sched, n) == SelectSeq(OpenLoops(sched, n), LAMBDA nm : nm # "")

StackMatchesOpenLoops ==
    /\ pc \in {"walk", "done"} => iname_list = NamedOpenLoops(knl.schedule, sched_idx)
    /\ pc = "done" => iname_list = <<>>

StackStep ==
    (pc = "walk" /\ sched_idx' = sched_idx + 1) =>
        /\ sched_item.iname = "" => iname_list' = iname_list
        /\ sched_item.kind = "Barrier" => iname_list' = iname_list
        /\ (sched_item.kind = "EnterLoop" /\ sched_item.iname # "")
              => iname_list' = Append(iname_list, sched_item.iname)
        /\ (sched_item.kind = "LeaveLoop" /\ sched_item.iname # "")
              => iname_list = Append(iname_list', sched_item.iname)

(* C14: over a well-nested schedule the active-index stack is, after every  *)
(* processed item, the sequence of named loops entered and not yet left in  *)
(* order of entry, and is empty when the walk ends; a nameless enter or     *)
(* leave and a barrier leave it unchanged, a named leave removes exactly    *)
(* the index it names.                                                      *)
C14_StackIsOpenNamedLoops == []StackMatchesOpenLoops /\ [][StackStep]_vars

C14_Witness ==
    /\ pc = "walk"
    /\ knl.schedule = <<EnterLoop("i"), EnterLoop("j"), Barrier, LeaveLoop("j"),
                        LeaveLoop("i")>>
    /\ sched_idx = 4
    /\ iname_list = <<"i">>

(* the case of C15: a global-array subscript whose index depends on lane   *)
(* indices, none of them on lane axis 0                                     *)
SentinelCase ==
    /\ pc = "gmem_counted"
    /\ IsGlobalSubscript(knl, expr)
    /\ LaneInames(knl, expr) # {}
    /\ \A iname \in LaneInames(knl, expr) : knl.iname_to_tag[iname].axis # 0

SentinelResult ==
    LET unit == ToCountMap(StridedGmemAccess(knl.arg_dict[expr.name].dtype,
                               IntStride(maxsize), "None", expr.name), PyInt(1))
        idx == gmem_sum(knl, expr.ch, Len(expr.ch))
    IN  IF idx.err # "" THEN result.err # ""
        ELSE result = Ok(ToCountMap_add(unit, idx.val))

(* C15: a global-array subscript whose lowest lane axis is not 0 is         *)
(* classified with the maximal-stride sentinel whatever the dimension       *)
(* strides and the index coefficients; no error is raised by the            *)
(* classification, and the result is one unit plus the count of the index.  *)
C15_SentinelWithoutError == SentinelCase => SentinelResult

C15_Witness ==
    /\ SentinelCase
    /\ expr = Subscript("a", <<Product(<<Var("i"), Var("j")>>)>>)
    /\ knl.iname_to_tag["i"] = LocalIndexTag(1)
    /\ knl.iname_to_tag["j"] = NoTag
    /\ gmem_sum(knl, expr.ch, Len(expr.ch)) = Ok(EmptyMap)
    /\ result.err = "RuntimeError: nonlinear"

(* on an index from which coefficients can be extracted the sentinel is     *)
(* substituted as claimed                                                   *)
SentinelOnAffineIndex ==
    (SentinelCase /\ \A n \in DOMAIN expr.ch : CoefficientCollector(expr.ch[n]).err = "")
        => SentinelResult

SentinelReached ==
    /\ SentinelCase
    /\ expr = Subscript("a", <<Lin(MaxCoeff)>>)
    /\ result = Ok(ToCountMap(StridedGmemAccess("f32", IntStride(maxsize), "None", "a"),
                              PyInt(1)))

RECURSIVE ChildUnits(_, _, _, _)
ChildUnits(k, ch, key, n) ==
    IF n = 0 THEN 0
    ELSE ChildUnits(k, ch, key, n - 1)
         + get(ExpressionOpCounter(k, ch[n]).val, key, PyInt(0)).n

(* the mul units of the product node itself: the result's minus the children's *)
OwnMuls ==
    LET key == TypedOp(type_inf(knl, expr), "mul")
    IN  get(result.val, key, PyInt(0)).n - ChildUnits(knl, expr.ch, key, Len(expr.ch))

RealMultiplicands == {n \in DOMAIN expr.ch : expr.ch[n] # Const(-1)}

CountedProduct == pc = "op_counted" /\ expr.kind = "prod" /\ result.err = ""

(* C16: a product node contributes, for itself, as many mul units as it has *)
(* children other than the literal -1, minus one, and never a negative      *)
(* number, also when none of its children is a real multiplicand.           *)
C16_ProductOwnMuls ==
    CountedProduct =>
        /\ OwnMuls = Cardinality(RealMultiplicands) - 1
        /\ OwnMuls >= 0

C16_Witness ==
    /\ CountedProduct
    /\ expr = Product(<<Const(-1), Const(-1)>>)
    /\ result = Ok(ToCountMap(TypedOp("i32", "mul"), PyInt(-1)))

(* with at least one real multiplicand the contribution is as claimed:     *)
(* x*y gives one, (-1)*x none                                               *)
ProductWithMultiplicand ==
    (CountedProduct /\ RealMultiplicands # {}) =>
        /\ OwnMuls = Cardinality(RealMultiplicands) - 1
        /\ OwnMuls >= 0
        /\ expr = Product(<<Var("x"), Var("x")>>) => OwnMuls = 1
        /\ expr = Product(<<Const(-1), Var("x")>>) => OwnMuls = 0

----------------------------------------------------------------------------
(* StridedGmemAccess as a dict key: __eq__ and __hash__, and ToCountMap     *)
(* addition over a dict that finds a key by hash first and __eq__ second.   *)

ANY_VAR == "ANY_VAR"

(* StridedGmemAccess.__eq__ *)
StridedGmemAccess_eq(self, o) ==
    /\ o.dtype = self.dtype
    /\ o.stride = self.stride
    /\ o.direction = self.direction
    /\ \/ self.variable = ANY_VAR \/ o.variable = ANY_VAR
       \/ self.variable = o.variable

(* StridedGmemAccess.__hash__: the hash of the concatenated strings, equal  *)
(* for two keys when the four strings are                                   *)
StridedGmemAccess_hash(self) ==
    <<self.dtype, self.stride, self.direction, self.variable>>

(* the stored key a dict lookup of key finds: same hash, then __eq__ *)
dict_find(dict, key) ==
    {k \in DOMAIN dict :
        /\ StridedGmemAccess_hash(k) = StridedGmemAccess_hash(key)
        /\ StridedGmemAccess_eq(k, key)}

dict_get(dict, key, default) ==
    IF dict_find(dict, key) = {} THEN default
    ELSE dict[CHOOSE k \in dict_find(dict, key) : TRUE]

(* dict[key] = v: the stored key is kept when the lookup finds one *)
dict_setitem(dict, key, v) ==
    IF dict_find(dict, key) = {}
    THEN [k \in DOMAIN dict \cup {key} |-> IF k = key THEN v ELSE dict[k]]
    ELSE [k \in DOMAIN dict |->
            IF k = (CHOOSE x \in dict_find(dict, key) : TRUE) THEN v ELSE dict[k]]

(* ToCountMap.__add__: result = self.dict.copy(), then for every (k, v) of  *)
(* other.dict: result[k] = self.dict.get(k, 0) + v                          *)
RECURSIVE ToCountMap_add_loop(_, _, _)
ToCountMap_add_loop(self, o, keys) ==
    IF keys = {} THEN self
    ELSE LET k == CHOOSE x \in keys : TRUE
         IN  dict_setitem(ToCountMap_add_loop(self, o, keys \ {k}), k,
                          PyAdd(dict_get(self, k, PyInt(0)), o[k]))

ToCountMap_add_keys(self, o) == ToCountMap_add_loop(self, o, DOMAIN o)

MaxEntries == 2

GmemKeys ==
    {StridedGmemAccess("f32", IntStride(st), dir, v) :
        st \in 0..1, dir \in {"load", "store"}, v \in {ANY_VAR, "a", "b"}}

(* the left operand holds up to MaxEntries keys, the right operand one *)
KeyMaps ==
    UNION {[D -> {PyInt(1)}] :
            D \in {S \in SUBSET GmemKeys : Cardinality(S) \in 1..MaxEntries}}

SingleKeyMaps == {ToCountMap(k, PwQPolynomial(MaxVal + 1)) : k \in GmemKeys}

InitKey ==
    /\ pc = "start"
    /\ result = None
    /\ a \in KeyMaps
    /\ b \in SingleKeyMaps
    /\ c = None
    /\ other = None
    /\ Idle

EqKeys ==
    /\ pc = "start"
    /\ \E k1 \in DOMAIN a, k2 \in DOMAIN b :
          /\ other' = <<k1, k2>>
          /\ result' = StridedGmemAccess_eq(k1, k2)
    /\ pc' = "compared"
    /\ UNCHANGED <<warned, a, b, c, cntVars, opVars, barVars, gmemVars, fpVars>>

AddKeyMaps ==
    /\ pc = "start"
    /\ result' = ToCountMap_add_keys(a, b)
    /\ pc' = "added"
    /\ UNCHANGED <<warned, mapVars, cntVars, opVars, barVars, gmemVars, fpVars>>

NextKey == EqKeys \/ AddKeyMaps

SpecKey == InitKey /\ [][NextKey]_vars

(* equality as the claim states it *)
SameAccess(k1, k2) ==
    /\ k1.dtype = k2.dtype /\ k1.stride = k2.stride /\ k1.direction = k2.direction
    /\ (k1.variable = k2.variable \/ ANY_VAR \in {k1.variable, k2.variable})

NoEqualKeys(dict) ==
    \A k1, k2 \in DOMAIN dict : SameAccess(k1, k2) => k1 = k2

(* C18: two keys are equal exactly when value type, stride class and        *)
(* direction are equal and the array identities are equal or one is the     *)
(* wildcard; the sum of two maps holds the values under equal keys in one   *)
(* entry, never a wildcard-array key and a concrete-array key of the same   *)
(* type, stride and direction as two entries.                               *)
C18_WildcardKeysMerge ==
    /\ pc = "compared" => (result <=> SameAccess(other[1], other[2]))
    /\ (pc = "added" /\ NoEqualKeys(a) /\ NoEqualKeys(b)) => NoEqualKeys(result)

C18_Witness ==
    /\ pc = "added"
    /\ a = ToCountMap(StridedGmemAccess("f32", IntStride(1), "load", ANY_VAR), PyInt(1))
    /\ b = ToCountMap(StridedGmemAccess("f32", IntStride(1), "load", "a"),
                      PwQPolynomial(MaxVal + 1))
    /\ DOMAIN result = DOMAIN a \cup DOMAIN b
    /\ Cardinality(DOMAIN result) = 2

(* the equality relation itself is the claimed one *)
KeyEqualityAsClaimed ==
    pc = "compared" => (result <=> SameAccess(other[1], other[2]))

(* keys are merged exactly when they agree on the array identity too *)
SumMergesIdenticalKeysOnly ==
    pc = "added" =>
        /\ DOMAIN result = DOMAIN a \cup DOMAIN b
        /\ \A k \in DOMAIN result :
              result[k] = PyAdd(get(a, k, PyInt(0)), get(b, k, PyInt(0)))

====
